---- MODULE Spec2Model ----
(***************************************************************************)
(* Model of the subgraph assignment provider (core/src/subgraph/           *)
(* provider.rs), of the mapping context (runtime/wasm/src/lib.rs) and of   *)
(* the GraphQL service (thegraph-hyper/src/service.rs).                    *)
(*                                                                         *)
(* A call of start or stop is a slot of `calls`; the slot's `pc` is the    *)
(* position of the call's future.  The steps of a start future are split   *)
(* at every point where another thread may run: manifest resolution, the   *)
(* locked insert, index construction, the channel send and the map_err     *)
(* closure.  Slots are taken in order, so a lower slot is an earlier call. *)
(* The consumer of the event stream keeps the stream alive, and fewer      *)
(* events than the channel's capacity are ever in flight, so a send        *)
(* enqueues its event at once.                                             *)
(*                                                                         *)
(* Spec runs the start and stop calls; SpecStream adds take_event_stream   *)
(* and the stream's consumer; SpecCtx runs the mapping contexts; SpecSvc   *)
(* runs the requests made to the GraphQL service and the query consumer.   *)
(***************************************************************************)
EXTENDS Integers, Sequences, FiniteSets, TLC

\* ------------------------------------------------------------- bounds
MaxCalls == 3
MaxStreamCalls == 2
MaxTakes == 2
MaxContexts == 3
MaxOps == 3
MaxRequests == 2

Ids == {"QmGood", "QmBad"}
NoId == "-"
CallIds == 1 .. MaxCalls
StreamCallIds == 1 .. MaxStreamCalls
BlockPtrs == {"block_a", "block_b"}
OpKinds == {"Set", "Remove"}
ReqIds == 1 .. MaxRequests
Methods == {"POST", "GET"}
Paths == {"/", "/graphql"}
Bodies == {"valid", "empty"}

VARIABLES
    event_stream,        \* provider.event_stream: "Some" or "None"
    subgraphs_running,   \* the HashSet behind Arc<Mutex<..>>
    channel,             \* events queued in the mpsc channel
    received,            \* events the consumer has pulled from the stream
    emitted,             \* history: every event a send has put in the channel
    takes,               \* history: the result of every take_event_stream()
    store,               \* the store: failed flags, writes and index builds
    calls,               \* the start/stop calls and their futures
    contexts,            \* the mapping contexts in existence
    origin,              \* history: the context each context was cloned from
    arc_strong,          \* strong count of each Arc<EthereumBlock>
    nextOp,              \* serial number of the next staged entity operation
    requests,            \* the requests given to GraphQLService::call
    query_sink,          \* queries queued in the channel behind query_sink
    query_stream,        \* the channel's receiver: "alive" or "dropped"
    forwarded            \* history: the request of every query sent to the sink

provVars == <<event_stream, subgraphs_running, channel, received, emitted,
              takes, store, calls>>
ctxVars == <<contexts, origin, arc_strong, nextOp>>
svcVars == <<requests, query_sink, query_stream, forwarded>>
vars == <<event_stream, subgraphs_running, channel, received, emitted,
          takes, store, calls, contexts, origin, arc_strong, nextOp,
          requests, query_sink, query_stream, forwarded>>

\* ------------------------------------------------------------- values
Ok == [kind |-> "Ok", id |-> NoId]
Pending == [kind |-> "Pending", id |-> NoId]
ResolveError == [kind |-> "ResolveError", id |-> NoId]
AlreadyRunning(id) == [kind |-> "AlreadyRunning", id |-> id]
NotRunning(id) == [kind |-> "NotRunning", id |-> id]

SubgraphStart(subgraph) == [kind |-> "SubgraphStart", id |-> subgraph.id]
SubgraphStop(id) == [kind |-> "SubgraphStop", id |-> id]

NoRequest == [method |-> "-", path |-> "-", body |-> "-", pc |-> "new",
              body_read |-> FALSE, result |-> "none", status |-> 0]

IdleCall == [op |-> "none", id |-> NoId, pc |-> "idle", link |-> <<>>,
             self_clone |-> [event_stream |-> "None", event_sink |-> "-"],
             subgraph |-> [id |-> NoId], index |-> "none", err |-> Pending,
             result |-> Pending, pre |-> {}]

\* format!("/ipfs/{}", id)
format(id) == <<"/ipfs/", id>>

\* The manifest found at a link names the deployment the link was built from.
SubgraphManifest(link) == [id |-> link[2]]

\* The provider as `self`: the fields a clone is made of.
self == [event_stream |-> event_stream, event_sink |-> "event_sink"]

\* Clones but forcing receivers to `None`.
clone(p) == [event_stream |-> "None", event_sink |-> p.event_sink]

\* Mutant: every value is reported as new.
insert_report_new(set, v) == [set |-> set \cup {v}, new |-> TRUE]

\* HashSet::insert: the set afterwards, and whether the value was new.
insert(set, v) == [set |-> set \cup {v}, new |-> v \notin set]

\* Mutant: the value is looked up but left in the set.
remove_noop(set, v) == [set |-> set, present |-> v \in set]

\* HashSet::remove: the set afterwards, and whether the value was present.
remove(set, v) == [set |-> set \ {v}, present |-> v \in set]

\* store.build_entity_attribute_indexes(definitions of subgraph id)
build_entity_attribute_indexes(s, id) ==
    [s EXCEPT !.indexes[id] = @ + 1]

\* store.apply_entity_operations(update_failed_operations(id, failed), ..)
apply_update_failed(s, id, failed) ==
    [s EXCEPT !.failed[id] = failed, !.writes[id] = @ + 1]

Done == {c \in CallIds : calls[c].pc = "done"}
Begun == {c \in CallIds : calls[c].pc # "idle"}
CanBegin(c) ==
    /\ calls[c].pc = "idle"
    /\ IF c = 1 THEN TRUE ELSE calls[c - 1].pc # "idle"

\* ------------------------------------------------------------- Init
Init ==
    /\ event_stream = "Some"
    /\ subgraphs_running = {}
    /\ channel = <<>>
    /\ received = <<>>
    /\ emitted = <<>>
    /\ takes = <<>>
    /\ store = [failed |-> [i \in Ids |-> FALSE],
                writes |-> [i \in Ids |-> 0],
                indexes |-> [i \in Ids |-> 0]]
    /\ calls = [c \in CallIds |-> IdleCall]
    /\ contexts = <<>>
    /\ origin = <<>>
    /\ arc_strong = [b \in BlockPtrs |-> 0]
    /\ nextOp = 1
    /\ requests = [r \in ReqIds |-> NoRequest]
    /\ query_sink = <<>>
    /\ query_stream = "alive"
    /\ forwarded = <<>>

\* ------------------------------------------------------------- start
\* Mutant: the id is put into the running-set when start() is called.
start_reserve_first(c, id) ==
    /\ CanBegin(c)
    /\ subgraphs_running' = subgraphs_running \cup {id}
    /\ calls' = [calls EXCEPT ![c] =
                   [IdleCall EXCEPT !.op = "start", !.id = id, !.pc = "resolve",
                                    !.link = format(id),
                                    !.self_clone = clone(self),
                                    !.pre = Done]]
    /\ UNCHANGED <<event_stream, channel, received, emitted, takes, store>>

\* start(): the synchronous part; the future returned is not yet polled.
start(c, id) ==
    /\ CanBegin(c)
    /\ calls' = [calls EXCEPT ![c] =
                   [IdleCall EXCEPT !.op = "start", !.id = id, !.pc = "resolve",
                                    !.link = format(id),
                                    !.self_clone = clone(self),
                                    !.pre = Done]]
    /\ UNCHANGED <<event_stream, subgraphs_running, channel, received,
                   emitted, takes, store>>

\* SubgraphManifest::resolve completes, with the manifest or with an error.
start_resolve(c, ok) ==
    /\ calls[c].op = "start" /\ calls[c].pc = "resolve"
    /\ calls' = [calls EXCEPT ![c] =
                   IF ok
                   THEN [@ EXCEPT !.subgraph = SubgraphManifest(calls[c].link),
                                  !.pc = "insert"]
                   ELSE [@ EXCEPT !.err = ResolveError, !.pc = "map_err"]]
    /\ UNCHANGED <<event_stream, subgraphs_running, channel, received,
                   emitted, takes, store>>

\* Mutant: the value returned by insert() is not looked at.
start_insert_unchecked(c) ==
    /\ calls[c].op = "start" /\ calls[c].pc = "insert"
    /\ subgraphs_running' = subgraphs_running \cup {calls[c].subgraph.id}
    /\ calls' = [calls EXCEPT ![c] = [@ EXCEPT !.pc = "index"]]
    /\ UNCHANGED <<event_stream, channel, received, emitted, takes, store>>

\* Mutant: the indexes are built before the running-set is consulted.
start_insert_index_first(c) ==
    /\ calls[c].op = "start" /\ calls[c].pc = "insert"
    /\ store' = build_entity_attribute_indexes(store, calls[c].subgraph.id)
    /\ subgraphs_running' = subgraphs_running \cup {calls[c].subgraph.id}
    /\ calls' = [calls EXCEPT ![c] =
                   IF calls[c].subgraph.id \in subgraphs_running
                   THEN [@ EXCEPT !.err = AlreadyRunning(calls[c].subgraph.id),
                                  !.pc = "map_err"]
                   ELSE [@ EXCEPT !.index = "Ok", !.pc = "send"]]
    /\ UNCHANGED <<event_stream, channel, received, emitted, takes>>

\* subgraphs_running.lock().unwrap().insert(subgraph.id.clone())
start_insert(c) ==
    /\ calls[c].op = "start" /\ calls[c].pc = "insert"
    /\ LET r == insert(subgraphs_running, calls[c].subgraph.id) IN
         /\ subgraphs_running' = r.set
         /\ calls' = [calls EXCEPT ![c] =
                        IF ~r.new
                        THEN [@ EXCEPT !.err = AlreadyRunning(calls[c].subgraph.id),
                                       !.pc = "map_err"]
                        ELSE [@ EXCEPT !.pc = "index"]]
    /\ UNCHANGED <<event_stream, channel, received, emitted, takes, store>>

\* Mutant: an index construction error fails the start.
start_index_strict(c, built) ==
    /\ calls[c].op = "start" /\ calls[c].pc = "index"
    /\ store' = build_entity_attribute_indexes(store, calls[c].subgraph.id)
    /\ calls' = [calls EXCEPT ![c] =
                   IF built
                   THEN [@ EXCEPT !.index = "Ok", !.pc = "send"]
                   ELSE [@ EXCEPT !.index = "Err", !.pc = "map_err",
                                  !.err = [kind |-> "Unknown", id |-> NoId]]]
    /\ UNCHANGED <<event_stream, subgraphs_running, channel, received,
                   emitted, takes>>

\* build_entity_attribute_indexes(..).map(..).ok(): the result is dropped.
start_index(c, built) ==
    /\ calls[c].op = "start" /\ calls[c].pc = "index"
    /\ store' = build_entity_attribute_indexes(store, calls[c].subgraph.id)
    /\ calls' = [calls EXCEPT ![c] =
                   [@ EXCEPT !.index = IF built THEN "Ok" ELSE "Err",
                             !.pc = "send"]]
    /\ UNCHANGED <<event_stream, subgraphs_running, channel, received,
                   emitted, takes>>

\* Mutant: a start that succeeds writes the failed flag as false.
start_send_clear_flag(c) ==
    /\ calls[c].op = "start" /\ calls[c].pc = "send"
    /\ channel' = Append(channel, SubgraphStart(calls[c].subgraph))
    /\ emitted' = Append(emitted, SubgraphStart(calls[c].subgraph))
    /\ store' = apply_update_failed(store, calls[c].id, FALSE)
    /\ calls' = [calls EXCEPT ![c] = [@ EXCEPT !.result = Ok, !.pc = "done"]]
    /\ UNCHANGED <<event_stream, subgraphs_running, received, takes>>

\* self_clone.event_sink.clone().send(SubgraphStart(subgraph))
start_send(c) ==
    /\ calls[c].op = "start" /\ calls[c].pc = "send"
    /\ channel' = Append(channel, SubgraphStart(calls[c].subgraph))
    /\ emitted' = Append(emitted, SubgraphStart(calls[c].subgraph))
    /\ calls' = [calls EXCEPT ![c] = [@ EXCEPT !.result = Ok, !.pc = "done"]]
    /\ UNCHANGED <<event_stream, subgraphs_running, received, takes, store>>

\* Mutant: the error is passed on without the store being written.
start_map_err_no_write(c) ==
    /\ calls[c].op = "start" /\ calls[c].pc = "map_err"
    /\ calls' = [calls EXCEPT ![c] =
                   [@ EXCEPT !.result = calls[c].err, !.pc = "done"]]
    /\ UNCHANGED <<event_stream, subgraphs_running, channel, received,
                   emitted, takes, store>>

\* Mutant: only a resolve failure flags the deployment as failed.
start_map_err_lenient(c) ==
    /\ calls[c].op = "start" /\ calls[c].pc = "map_err"
    /\ store' = IF calls[c].err = ResolveError
                THEN apply_update_failed(store, calls[c].id, TRUE)
                ELSE store
    /\ calls' = [calls EXCEPT ![c] =
                   [@ EXCEPT !.result = calls[c].err, !.pc = "done"]]
    /\ UNCHANGED <<event_stream, subgraphs_running, channel, received,
                   emitted, takes>>

\* .map_err(move |e| { store.apply_entity_operations(..failed = true..); e })
start_map_err(c) ==
    /\ calls[c].op = "start" /\ calls[c].pc = "map_err"
    /\ store' = apply_update_failed(store, calls[c].id, TRUE)
    /\ calls' = [calls EXCEPT ![c] =
                   [@ EXCEPT !.result = calls[c].err, !.pc = "done"]]
    /\ UNCHANGED <<event_stream, subgraphs_running, channel, received,
                   emitted, takes>>

\* ------------------------------------------------------------- stop
\* Mutant: the Stop event is sent whether or not the id was in the set.
stop_always(c, id) ==
    /\ CanBegin(c)
    /\ subgraphs_running' = subgraphs_running \ {id}
    /\ calls' = [calls EXCEPT ![c] =
                   [IdleCall EXCEPT !.op = "stop", !.id = id,
                                    !.pc = "send", !.pre = Done]]
    /\ UNCHANGED <<event_stream, channel, received, emitted, takes, store>>

\* Mutant: a stop that finds nothing to stop flags the deployment as failed.
stop_flagging(c, id) ==
    /\ CanBegin(c)
    /\ subgraphs_running' = subgraphs_running \ {id}
    /\ store' = IF id \in subgraphs_running
                THEN store
                ELSE apply_update_failed(store, id, TRUE)
    /\ calls' = [calls EXCEPT ![c] =
                   IF id \in subgraphs_running
                   THEN [IdleCall EXCEPT !.op = "stop", !.id = id,
                                         !.pc = "send", !.pre = Done]
                   ELSE [IdleCall EXCEPT !.op = "stop", !.id = id,
                                         !.pc = "done", !.pre = Done,
                                         !.err = NotRunning(id),
                                         !.result = NotRunning(id)]]
    /\ UNCHANGED <<event_stream, channel, received, emitted, takes>>

\* stop(): the removal happens in the call; the send waits for the poll.
stop(c, id) ==
    /\ CanBegin(c)
    /\ LET r == remove(subgraphs_running, id) IN
         /\ subgraphs_running' = r.set
         /\ calls' = [calls EXCEPT ![c] =
                        IF r.present
                        THEN [IdleCall EXCEPT !.op = "stop", !.id = id,
                                              !.pc = "send", !.pre = Done]
                        ELSE [IdleCall EXCEPT !.op = "stop", !.id = id,
                                              !.pc = "done", !.pre = Done,
                                              !.err = NotRunning(id),
                                              !.result = NotRunning(id)]]
    /\ UNCHANGED <<event_stream, channel, received, emitted, takes, store>>

\* self.event_sink.clone().send(SubgraphStop(id))
stop_send(c) ==
    /\ calls[c].op = "stop" /\ calls[c].pc = "send"
    /\ channel' = Append(channel, SubgraphStop(calls[c].id))
    /\ emitted' = Append(emitted, SubgraphStop(calls[c].id))
    /\ calls' = [calls EXCEPT ![c] = [@ EXCEPT !.result = Ok, !.pc = "done"]]
    /\ UNCHANGED <<event_stream, subgraphs_running, received, takes, store>>

\* ------------------------------------------------------------- stream
\* Mutant: the stream is handed out without being taken out of the field.
take_event_stream_keep ==
    /\ Len(takes) < MaxTakes
    /\ takes' = Append(takes, [stream |-> event_stream, emitted |-> Len(emitted)])
    /\ UNCHANGED <<event_stream, subgraphs_running, channel, received,
                   emitted, store, calls>>

\* self.event_stream.take()
take_event_stream ==
    /\ Len(takes) < MaxTakes
    /\ takes' = Append(takes, [stream |-> event_stream, emitted |-> Len(emitted)])
    /\ event_stream' = "None"
    /\ UNCHANGED <<subgraphs_running, channel, received, emitted, store, calls>>

\* The holder of the stream polls it: the oldest queued event comes out.
stream_poll ==
    /\ \E i \in 1 .. Len(takes) : takes[i].stream = "Some"
    /\ channel # <<>>
    /\ received' = Append(received, Head(channel))
    /\ channel' = Tail(channel)
    /\ UNCHANGED <<event_stream, subgraphs_running, emitted, takes, store, calls>>

\* ------------------------------------------------------------- contexts
\* A context for a new trigger: the block reference, nothing staged.
MappingContext(block) ==
    [logger |-> "logger", block |-> block, entity_operations |-> <<>>]

\* Mutant: the derived Clone, which copies every field.
MappingContext_clone_derived(ctx) == ctx

\* impl Clone for MappingContext
MappingContext_clone(ctx) ==
    [logger |-> ctx.logger, block |-> ctx.block, entity_operations |-> <<>>]

\* Arc::clone: one more owner of the same allocation.
Arc_clone(strong, ptr) == [strong EXCEPT ![ptr] = @ + 1]

new_context(block) ==
    /\ Len(contexts) < MaxContexts
    /\ contexts' = Append(contexts, MappingContext(block))
    /\ origin' = Append(origin, 0)
    /\ arc_strong' = Arc_clone(arc_strong, block)
    /\ UNCHANGED nextOp

clone_context(i) ==
    /\ Len(contexts) < MaxContexts
    /\ contexts' = Append(contexts, MappingContext_clone(contexts[i]))
    /\ origin' = Append(origin, i)
    /\ arc_strong' = Arc_clone(arc_strong, contexts[i].block)
    /\ UNCHANGED nextOp

\* A handler stages an entity operation in its context's accumulator.
stage(i, kind) ==
    /\ nextOp <= MaxOps
    /\ contexts' = [contexts EXCEPT ![i].entity_operations =
                      Append(@, [op |-> kind, serial |-> nextOp, staged_in |-> i])]
    /\ nextOp' = nextOp + 1
    /\ UNCHANGED <<origin, arc_strong>>

\* ------------------------------------------------------------- service
NOT_FOUND == 404
BAD_REQUEST == 400
STATUS_OK == 200
INTERNAL_SERVER_ERROR == 500

\* GraphQLRequest::new(body): the query of a well-formed body, else an error.
GraphQLRequest(body) == IF body = "valid" THEN "Query" ELSE "ClientError"

\* GraphQLResponse::new(result): the status the response carries.
GraphQLResponse(result) ==
    CASE result = "QueryResult" -> STATUS_OK
      [] result = "ClientError" -> BAD_REQUEST
      [] OTHER -> INTERNAL_SERVER_ERROR

Arrived == {r \in ReqIds : requests[r].pc # "new"}
IsQueryRoute(method, path) == method = "POST" /\ path = "/"

\* Mutant: the route is chosen by the path alone.
call_path_only(r, method, path, body) ==
    /\ requests[r].pc = "new"
    /\ IF r = 1 THEN TRUE ELSE requests[r - 1].pc # "new"
    /\ requests' = [requests EXCEPT ![r] =
                      IF path = "/"
                      THEN [NoRequest EXCEPT !.method = method, !.path = path,
                                             !.body = body, !.pc = "read_body"]
                      ELSE [NoRequest EXCEPT !.method = method, !.path = path,
                                             !.body = body, !.pc = "done",
                                             !.status = NOT_FOUND]]
    /\ UNCHANGED <<query_sink, query_stream, forwarded>>

\* Service::call: POST / goes to handle_graphql_query, the rest to
\* handle_not_found, whose response is ready at once.
call(r, method, path, body) ==
    /\ requests[r].pc = "new"
    /\ IF r = 1 THEN TRUE ELSE requests[r - 1].pc # "new"
    /\ requests' = [requests EXCEPT ![r] =
                      IF IsQueryRoute(method, path)
                      THEN [NoRequest EXCEPT !.method = method, !.path = path,
                                             !.body = body, !.pc = "read_body"]
                      ELSE [NoRequest EXCEPT !.method = method, !.path = path,
                                             !.body = body, !.pc = "done",
                                             !.status = NOT_FOUND]]
    /\ UNCHANGED <<query_sink, query_stream, forwarded>>

\* request.into_body().concat2().map_err(..): the body arrives, or not.
read_body(r, ok) ==
    /\ requests[r].pc = "read_body"
    /\ requests' = [requests EXCEPT ![r] =
                      IF ok
                      THEN [@ EXCEPT !.body_read = TRUE, !.pc = "parse"]
                      ELSE [@ EXCEPT !.pc = "done",
                                     !.status = GraphQLResponse("ReadError")]]
    /\ UNCHANGED <<query_sink, query_stream, forwarded>>

\* Mutant: the forwarding closure runs whatever GraphQLRequest::new says.
parse_request_forward_anyway(r) ==
    /\ requests[r].pc = "parse"
    /\ requests' = [requests EXCEPT ![r] = [@ EXCEPT !.pc = "forward"]]
    /\ UNCHANGED <<query_sink, query_stream, forwarded>>

\* .and_then(|body| GraphQLRequest::new(body)): an error skips the
\* forwarding closure and reaches .then(GraphQLResponse::new).
parse_request(r) ==
    /\ requests[r].pc = "parse"
    /\ requests' = [requests EXCEPT ![r] =
                      IF GraphQLRequest(requests[r].body) = "Query"
                      THEN [@ EXCEPT !.pc = "forward"]
                      ELSE [@ EXCEPT !.pc = "done",
                                     !.status = GraphQLResponse(
                                         GraphQLRequest(requests[r].body))]]
    /\ UNCHANGED <<query_sink, query_stream, forwarded>>

\* query_sink.send(query).wait().expect(..): the clone of the sender has a
\* slot of its own, so the query is queued at once; with the receiver gone
\* the send fails and expect panics.
forward_query(r) ==
    /\ requests[r].pc = "forward"
    /\ IF query_stream = "alive"
       THEN /\ query_sink' = Append(query_sink, r)
            /\ forwarded' = Append(forwarded, r)
            /\ requests' = [requests EXCEPT ![r] = [@ EXCEPT !.pc = "wait"]]
       ELSE /\ requests' = [requests EXCEPT ![r] = [@ EXCEPT !.pc = "panicked"]]
            /\ UNCHANGED <<query_sink, forwarded>>
    /\ UNCHANGED query_stream

\* Mutant: the response is built without waiting for the result receiver.
receive_result_no_wait(r) ==
    /\ requests[r].pc = "wait"
    /\ requests' = [requests EXCEPT ![r] =
                      [@ EXCEPT !.pc = "done",
                                !.status = GraphQLResponse("QueryResult")]]
    /\ UNCHANGED <<query_sink, query_stream, forwarded>>

\* receiver.map_err(..) completes, then .then(GraphQLResponse::new).
receive_result(r) ==
    /\ requests[r].pc = "wait"
    /\ requests[r].result # "none"
    /\ requests' = [requests EXCEPT ![r] =
                      [@ EXCEPT !.pc = "done",
                                !.status = GraphQLResponse(
                                    IF requests[r].result = "sent"
                                    THEN "QueryResult" ELSE "Canceled")]]
    /\ UNCHANGED <<query_sink, query_stream, forwarded>>

\* The consumer of the query stream takes the oldest query and sends a
\* result on its result_sender, or lets the sender go.
query_stream_next(reply) ==
    /\ query_stream = "alive"
    /\ query_sink # <<>>
    /\ requests' = [requests EXCEPT ![Head(query_sink)] =
                      [@ EXCEPT !.result = IF reply THEN "sent" ELSE "canceled"]]
    /\ query_sink' = Tail(query_sink)
    /\ UNCHANGED <<query_stream, forwarded>>

\* The receiver is dropped: the queries still queued lose their senders.
drop_query_stream ==
    /\ query_stream = "alive"
    /\ query_stream' = "dropped"
    /\ requests' = [r \in ReqIds |->
                      IF \E i \in 1 .. Len(query_sink) : query_sink[i] = r
                      THEN [requests[r] EXCEPT !.result = "canceled"]
                      ELSE requests[r]]
    /\ query_sink' = <<>>
    /\ UNCHANGED forwarded

\* ------------------------------------------------------------- Next
Next ==
    \/ \E c \in CallIds, id \in Ids : start(c, id) /\ UNCHANGED <<ctxVars, svcVars>>
    \/ \E c \in CallIds, ok \in BOOLEAN : start_resolve(c, ok) /\ UNCHANGED <<ctxVars, svcVars>>
    \/ \E c \in CallIds : start_insert(c) /\ UNCHANGED <<ctxVars, svcVars>>
    \/ \E c \in CallIds, built \in BOOLEAN : start_index(c, built) /\ UNCHANGED <<ctxVars, svcVars>>
    \/ \E c \in CallIds : start_send(c) /\ UNCHANGED <<ctxVars, svcVars>>
    \/ \E c \in CallIds : start_map_err(c) /\ UNCHANGED <<ctxVars, svcVars>>
    \/ \E c \in CallIds, id \in Ids : stop(c, id) /\ UNCHANGED <<ctxVars, svcVars>>
    \/ \E c \in CallIds : stop_send(c) /\ UNCHANGED <<ctxVars, svcVars>>

Spec == Init /\ [][Next]_vars

NextStream ==
    \/ \E c \in StreamCallIds, id \in Ids : start(c, id) /\ UNCHANGED <<ctxVars, svcVars>>
    \/ \E c \in StreamCallIds, ok \in BOOLEAN : start_resolve(c, ok) /\ UNCHANGED <<ctxVars, svcVars>>
    \/ \E c \in StreamCallIds : start_insert(c) /\ UNCHANGED <<ctxVars, svcVars>>
    \/ \E c \in StreamCallIds, built \in BOOLEAN : start_index(c, built) /\ UNCHANGED <<ctxVars, svcVars>>
    \/ \E c \in StreamCallIds : start_send(c) /\ UNCHANGED <<ctxVars, svcVars>>
    \/ \E c \in StreamCallIds : start_map_err(c) /\ UNCHANGED <<ctxVars, svcVars>>
    \/ \E c \in StreamCallIds, id \in Ids : stop(c, id) /\ UNCHANGED <<ctxVars, svcVars>>
    \/ \E c \in StreamCallIds : stop_send(c) /\ UNCHANGED <<ctxVars, svcVars>>
    \/ take_event_stream /\ UNCHANGED <<ctxVars, svcVars>>
    \/ stream_poll /\ UNCHANGED <<ctxVars, svcVars>>

SpecStream == Init /\ [][NextStream]_vars

NextCtx ==
    \/ \E b \in BlockPtrs : new_context(b) /\ UNCHANGED <<provVars, svcVars>>
    \/ \E i \in 1 .. Len(contexts) : clone_context(i) /\ UNCHANGED <<provVars, svcVars>>
    \/ \E i \in 1 .. Len(contexts), k \in OpKinds : stage(i, k) /\ UNCHANGED <<provVars, svcVars>>

SpecCtx == Init /\ [][NextCtx]_vars

NextSvc ==
    \/ \E r \in ReqIds, m \in Methods, p \in Paths, b \in Bodies :
          call(r, m, p, b) /\ UNCHANGED <<provVars, ctxVars>>
    \/ \E r \in ReqIds, ok \in BOOLEAN : read_body(r, ok) /\ UNCHANGED <<provVars, ctxVars>>
    \/ \E r \in ReqIds : parse_request(r) /\ UNCHANGED <<provVars, ctxVars>>
    \/ \E r \in ReqIds : forward_query(r) /\ UNCHANGED <<provVars, ctxVars>>
    \/ \E r \in ReqIds : receive_result(r) /\ UNCHANGED <<provVars, ctxVars>>
    \/ \E reply \in BOOLEAN : query_stream_next(reply) /\ UNCHANGED <<provVars, ctxVars>>
    \/ drop_query_stream /\ UNCHANGED <<provVars, ctxVars>>

SpecSvc == Init /\ [][NextSvc]_vars

\* ------------------------------------------------------------- claims
StartsOf(id) == {c \in Begun : calls[c].op = "start" /\ calls[c].id = id}
StopsOf(id) == {c \in Begun : calls[c].op = "stop" /\ calls[c].id = id}
Resolved(c) == calls[c].subgraph.id # NoId
Count(seq, e) == Cardinality({i \in 1 .. Len(seq) : seq[i] = e})
EventsOf(id) == SelectSeq(emitted, LAMBDA e : e.id = id)
StartEvent(id) == SubgraphStart([id |-> id])

\* C1: when the only calls on an id are two start(id) calls, both have
\* resolved the manifest and both have completed, then one of them returned
\* Ok and the other AlreadyRunning(id), and exactly one SubgraphStart of that
\* id was emitted -- whatever the order of their resolve, insert and send steps.
C1_ConcurrentStartsOneWinner ==
    \A id \in Ids : \A c1, c2 \in CallIds :
        ( /\ c1 < c2
          /\ StartsOf(id) = {c1, c2}
          /\ StopsOf(id) = {}
          /\ {c1, c2} \subseteq Done
          /\ Resolved(c1) /\ Resolved(c2) )
        => /\ \/ calls[c1].result = Ok /\ calls[c2].result = AlreadyRunning(id)
              \/ calls[c2].result = Ok /\ calls[c1].result = AlreadyRunning(id)
           /\ Count(emitted, StartEvent(id)) = 1

\* Two overlapping start(id) calls: the later call won the insert.
C1_Witness ==
    \E id \in Ids : \E c1, c2 \in CallIds :
        /\ c1 < c2
        /\ StartsOf(id) = {c1, c2}
        /\ StopsOf(id) = {}
        /\ {c1, c2} \subseteq Done
        /\ c1 \notin calls[c2].pre
        /\ calls[c2].result = Ok
        /\ calls[c1].result = AlreadyRunning(id)

\* C2: a stop(id) that no start(id) call preceded fails with NotRunning(id);
\* and when the calls on an id are a start that succeeded, then a stop made
\* after it returned, then a second stop, the first stop succeeds (id leaves
\* the running-set, one SubgraphStop(id) is emitted) and the second fails
\* with NotRunning(id).
C2_StopOnlyWhenRunning ==
    /\ \A c \in Done :
          ( /\ calls[c].op = "stop"
            /\ \A b \in 1 .. (c - 1) :
                  ~(calls[b].op = "start" /\ calls[b].id = calls[c].id) )
          => calls[c].result = NotRunning(calls[c].id)
    /\ \A id \in Ids : \A c1, c2, c3 \in CallIds :
          ( /\ c1 < c2 /\ c2 < c3
            /\ StartsOf(id) = {c1}
            /\ StopsOf(id) = {c2, c3}
            /\ calls[c1].result = Ok
            /\ c1 \in calls[c2].pre )
          => /\ calls[c2].pc \in {"send", "done"}
             /\ calls[c2].result = IF c2 \in Done THEN Ok ELSE Pending
             /\ calls[c3].result = NotRunning(id)
             /\ id \notin subgraphs_running
             /\ Count(emitted, SubgraphStop(id)) = IF c2 \in Done THEN 1 ELSE 0

\* start(id) succeeded, stop(id) succeeded and sent its event, a second
\* stop(id) failed.
C2_Witness ==
    \E id \in Ids : \E c1, c2, c3 \in CallIds :
        /\ c1 < c2 /\ c2 < c3
        /\ StartsOf(id) = {c1}
        /\ StopsOf(id) = {c2, c3}
        /\ calls[c1].result = Ok
        /\ c1 \in calls[c2].pre
        /\ calls[c2].result = Ok
        /\ c2 \in calls[c3].pre
        /\ calls[c3].result = NotRunning(id)

\* C3: the first take_event_stream() yields the stream and every later one
\* nothing, however many start and stop calls were made before or between
\* them (their clones carry no receiver); the events those calls emit all
\* reach the one stream, in order: what was consumed followed by what is
\* queued is what was emitted.
C3_StreamTakenOnce ==
    /\ \A i \in 1 .. Len(takes) :
          takes[i].stream = IF i = 1 THEN "Some" ELSE "None"
    /\ event_stream = IF takes = <<>> THEN "Some" ELSE "None"
    /\ \A c \in Begun : calls[c].op = "start"
          => calls[c].self_clone.event_stream = "None"
    /\ received \o channel = emitted

\* An event was emitted before the first take and another between the two
\* takes; the consumer has received both.
C3_Witness ==
    /\ Len(takes) = 2
    /\ takes[1].stream = "Some" /\ takes[2].stream = "None"
    /\ takes[1].emitted >= 1
    /\ takes[2].emitted > takes[1].emitted
    /\ Len(received) = takes[2].emitted

ResolveFailed(c) ==
    /\ calls[c].op = "start"
    /\ calls[c].pc \in {"map_err", "done"}
    /\ ~Resolved(c)

\* C4: no step of a start(id) whose manifest resolution failed changes the
\* running-set or emits an event, and when the call completes its result is
\* ResolveError and the failed flag of id is true in the store.
C4_ResolveFailure ==
    [][\A c \in CallIds :
         (ResolveFailed(c)' /\ calls'[c] # calls[c])
         => /\ subgraphs_running' = subgraphs_running
            /\ emitted' = emitted
            /\ channel' = channel
            /\ calls'[c].pc = "done"
                 => /\ calls'[c].result = ResolveError
                    /\ store'.failed[calls'[c].id] = TRUE]_vars

\* A start failed to resolve and returned: the flag is set, nothing runs.
C4_Witness ==
    \E c \in Done :
        /\ ResolveFailed(c)
        /\ calls[c].result = ResolveError
        /\ store.failed[calls[c].id]
        /\ subgraphs_running = {}
        /\ emitted = <<>>

\* C5: start(id), then stop(id) after it returned, then start(id) after the
\* stop returned, both resolutions succeeding and no other call on id: all
\* three return Ok and the events of id are Start, Stop, Start in that order.
C5_ReusableAfterStop ==
    \A id \in Ids : \A c1, c2, c3 \in CallIds :
        ( /\ c1 < c2 /\ c2 < c3
          /\ StartsOf(id) = {c1, c3}
          /\ StopsOf(id) = {c2}
          /\ c1 \in calls[c2].pre
          /\ c2 \in calls[c3].pre
          /\ Resolved(c1) /\ Resolved(c3)
          /\ c3 \in Done )
        => /\ calls[c1].result = Ok
           /\ calls[c2].result = Ok
           /\ calls[c3].result = Ok
           /\ id \in subgraphs_running
           /\ EventsOf(id) = <<StartEvent(id), SubgraphStop(id), StartEvent(id)>>

\* The three sequential calls have all returned.
C5_Witness ==
    \E id \in Ids : \E c1, c2, c3 \in CallIds :
        /\ c1 < c2 /\ c2 < c3
        /\ StartsOf(id) = {c1, c3}
        /\ StopsOf(id) = {c2}
        /\ c1 \in calls[c2].pre
        /\ c2 \in calls[c3].pre
        /\ c3 \in Done
        /\ calls[c3].result = Ok
        /\ EventsOf(id) = <<StartEvent(id), SubgraphStop(id), StartEvent(id)>>

\* C6: every step in which a start(id) call gets an error as its result
\* also writes the failed flag of the requested id as true to the store, and
\* the result is the error that arose (ResolveError, or AlreadyRunning(id)
\* from the lost insert), unchanged.
C6_FailedFlagOnEveryStartError ==
    [][\A c \in CallIds :
         ( /\ calls'[c].op = "start"
           /\ calls[c].result = Pending
           /\ calls'[c].result \notin {Pending, Ok} )
         => /\ calls'[c].result = calls[c].err
            /\ calls'[c].result \in {ResolveError, AlreadyRunning(calls[c].id)}
            /\ store'.failed[calls[c].id] = TRUE
            /\ store'.writes[calls[c].id] = store.writes[calls[c].id] + 1]_vars

\* A start that lost the insert returned AlreadyRunning with the flag set,
\* and a start that failed to resolve returned ResolveError with it set.
C6_Witness ==
    \E c, d \in Done :
        /\ calls[c].op = "start" /\ calls[d].op = "start"
        /\ calls[c].result = AlreadyRunning(calls[c].id)
        /\ store.failed[calls[c].id]
        /\ calls[d].result = ResolveError
        /\ calls[d].id # calls[c].id
        /\ store.failed[calls[d].id]

\* C7: a start(id) whose insert finds id already in the running-set leaves
\* the running-set, the event stream and the store as they are in its insert
\* step (no index construction), and its map_err step changes only the
\* store's failed flag of id: the id stays running and no event is emitted.
C7_DuplicateStartChangesOnlyFlag ==
    [][\A c \in CallIds :
         /\ ( /\ calls[c].op = "start" /\ calls[c].pc = "insert"
              /\ calls[c].subgraph.id \in subgraphs_running
              /\ calls'[c] # calls[c] )
            => /\ calls'[c].pc = "map_err"
               /\ calls'[c].err = AlreadyRunning(calls[c].id)
               /\ UNCHANGED <<subgraphs_running, channel, emitted, store>>
         /\ ( /\ calls[c].op = "start" /\ calls[c].pc = "map_err"
              /\ calls[c].err.kind = "AlreadyRunning"
              /\ calls'[c] # calls[c] )
            => /\ calls'[c].result = AlreadyRunning(calls[c].id)
               /\ UNCHANGED <<subgraphs_running, channel, emitted>>
               /\ store'.indexes = store.indexes
               /\ store'.failed = [store.failed EXCEPT ![calls[c].id] = TRUE]]_vars

\* start(id) succeeded; a start(id) made after it returned failed with
\* AlreadyRunning: id still runs, one Start event, one index construction.
C7_Witness ==
    \E c \in Done : \E w \in calls[c].pre :
        /\ calls[w].op = "start" /\ calls[w].id = calls[c].id
        /\ calls[w].result = Ok
        /\ calls[c].op = "start"
        /\ calls[c].result = AlreadyRunning(calls[c].id)
        /\ calls[c].id \in subgraphs_running
        /\ Count(emitted, StartEvent(calls[c].id)) = 1
        /\ store.indexes[calls[c].id] = 1
        /\ store.failed[calls[c].id]

\* C8: when index construction returns an error on the winning path of
\* start(id), the call goes on to send: that step and the send leave the
\* running-set and the failed flags alone, the send emits Start(manifest)
\* and the call returns Ok.
C8_IndexErrorDoesNotBlock ==
    [][\A c \in CallIds :
         /\ (calls[c].pc = "index" /\ calls'[c].index = "Err")
            => /\ calls'[c].pc = "send"
               /\ subgraphs_running' = subgraphs_running
               /\ store'.failed = store.failed
               /\ store'.writes = store.writes
         /\ ( /\ calls[c].op = "start" /\ calls[c].index = "Err"
              /\ calls'[c] # calls[c] )
            => /\ calls[c].pc = "send"
               /\ calls'[c].pc = "done"
               /\ calls'[c].result = Ok
               /\ emitted' = Append(emitted, SubgraphStart(calls[c].subgraph))
               /\ channel' = Append(channel, SubgraphStart(calls[c].subgraph))
               /\ subgraphs_running' = subgraphs_running
               /\ store' = store]_vars

\* A start whose index construction failed returned Ok: the id runs, its
\* Start event is out and its failed flag was never written.
C8_Witness ==
    \E c \in Done :
        /\ calls[c].op = "start"
        /\ calls[c].index = "Err"
        /\ calls[c].result = Ok
        /\ calls[c].id \in subgraphs_running
        /\ Count(emitted, StartEvent(calls[c].id)) = 1
        /\ store.writes[calls[c].id] = 0
        /\ ~store.failed[calls[c].id]

\* C9: no step of a stop(id) call writes to the store; a stop that fails
\* with NotRunning changes nothing but its own result; a stop that succeeds
\* removes id from the running-set in the call and emits SubgraphStop(id)
\* in its send, and nothing else.
C9_StopFrame ==
    [][\A c \in CallIds :
         (calls'[c].op = "stop" /\ calls'[c] # calls[c])
         => /\ store' = store
            /\ event_stream' = event_stream
            /\ calls[c].pc \in {"idle", "send"}
            /\ (calls[c].pc = "idle" /\ calls'[c].id \notin subgraphs_running)
                 => /\ calls'[c].result = NotRunning(calls'[c].id)
                    /\ calls'[c].pc = "done"
                    /\ UNCHANGED <<subgraphs_running, channel, emitted, received>>
            /\ (calls[c].pc = "idle" /\ calls'[c].id \in subgraphs_running)
                 => /\ calls'[c].pc = "send"
                    /\ calls'[c].result = Pending
                    /\ subgraphs_running' = subgraphs_running \ {calls'[c].id}
                    /\ UNCHANGED <<channel, emitted, received>>
            /\ calls[c].pc = "send"
                 => /\ calls'[c].pc = "done"
                    /\ calls'[c].result = Ok
                    /\ subgraphs_running' = subgraphs_running
                    /\ emitted' = Append(emitted, SubgraphStop(calls[c].id))
                    /\ channel' = Append(channel, SubgraphStop(calls[c].id))]_vars

\* One stop succeeded and sent its event, another failed with NotRunning,
\* and the store holds no write.
C9_Witness ==
    \E c, d \in Done :
        /\ calls[c].op = "stop" /\ calls[c].result = Ok
        /\ calls[d].op = "stop" /\ calls[d].result = NotRunning(calls[d].id)
        /\ Count(emitted, SubgraphStop(calls[c].id)) = 1
        /\ \A i \in Ids : store.writes[i] = 0 /\ ~store.failed[i]

Ops(j) == contexts[j].entity_operations

\* C10: the context a clone produces has an empty accumulator and the same
\* block pointer as the original (whose strong count grows by one), whatever
\* the original has staged, and the clone leaves every existing context as
\* it is; staging changes the accumulator of one context only, so every
\* operation in an accumulator was staged in that very context.
C10_CloneStartsEmpty ==
    [][/\ \A j \in 1 .. Len(contexts') :
            \A k \in 1 .. Len(contexts'[j].entity_operations) :
                contexts'[j].entity_operations[k].staged_in = j
       /\ (Len(contexts') = Len(contexts) + 1 /\ origin'[Len(contexts')] # 0)
            => LET j == Len(contexts')
                   i == origin'[Len(contexts')]
               IN  /\ contexts'[j].entity_operations = <<>>
                   /\ contexts'[j].block = contexts[i].block
                   /\ arc_strong'[contexts[i].block] =
                          arc_strong[contexts[i].block] + 1
                   /\ \A m \in 1 .. Len(contexts) : contexts'[m] = contexts[m]
       /\ nextOp' # nextOp
            => /\ Len(contexts') = Len(contexts)
               /\ Cardinality({m \in 1 .. Len(contexts) :
                                 contexts'[m] # contexts[m]}) = 1]_vars

\* A context with an operation staged was cloned; afterwards both the
\* original and the clone staged an operation of their own.
C10_Witness ==
    \E i, j \in 1 .. Len(contexts) :
        /\ origin[j] = i
        /\ contexts[j].block = contexts[i].block
        /\ Len(Ops(i)) = 2
        /\ Len(Ops(j)) = 1
        /\ Ops(i)[1].serial < Ops(j)[1].serial
        /\ Ops(j)[1].serial < Ops(i)[2].serial

QueryRoute(r) == IsQueryRoute(requests[r].method, requests[r].path)

\* C11: a POST / request with a valid body puts exactly one query in the
\* query sink (no request ever puts more than one), and its response is a
\* 200 only once the consumer has sent a result on that query's result
\* channel: a 200 never stands without the result, and a result sent makes
\* the completed response a 200.
C11_ValidQueryAnsweredAfterResult ==
    /\ \A r \in ReqIds : Count(forwarded, r) <= 1
    /\ \A r \in Arrived :
          requests[r].status = STATUS_OK
          => /\ QueryRoute(r) /\ requests[r].body = "valid"
             /\ requests[r].result = "sent"
             /\ Count(forwarded, r) = 1
    /\ \A r \in Arrived :
          ( /\ QueryRoute(r) /\ requests[r].body = "valid"
            /\ requests[r].pc \in {"wait", "done"}
            /\ requests[r].body_read )
          => /\ Count(forwarded, r) = 1
             /\ requests[r].pc = "wait" => requests[r].status = 0
             /\ (requests[r].pc = "done" /\ requests[r].result = "sent")
                  => requests[r].status = STATUS_OK

\* A valid query was forwarded, the consumer sent its result, and the
\* response is a 200.
C11_Witness ==
    \E r \in Arrived :
        /\ QueryRoute(r) /\ requests[r].body = "valid"
        /\ requests[r].pc = "done"
        /\ requests[r].result = "sent"
        /\ requests[r].status = STATUS_OK
        /\ Count(forwarded, r) = 1

\* C12: a POST / request whose body was read and is malformed never reaches
\* the query sink and never waits for the consumer: its next step is always
\* possible, with the consumer alive or dropped, and completes it with 400.
C12_MalformedBodyIs400 ==
    \A r \in Arrived :
        (QueryRoute(r) /\ requests[r].body = "empty" /\ requests[r].body_read)
        => /\ requests[r].pc \in {"parse", "done"}
           /\ requests[r].pc = "parse" => ENABLED parse_request(r)
           /\ requests[r].pc = "done" => requests[r].status = BAD_REQUEST
           /\ requests[r].result = "none"
           /\ Count(forwarded, r) = 0

\* The consumer is gone, nothing was ever forwarded, and an empty POST /
\* was answered with 400.
C12_Witness ==
    \E r \in Arrived :
        /\ QueryRoute(r) /\ requests[r].body = "empty"
        /\ requests[r].pc = "done"
        /\ requests[r].status = BAD_REQUEST
        /\ query_stream = "dropped"
        /\ forwarded = <<>>

\* C13: a request that is not POST on "/" is answered with 404 in the call
\* itself: its body is never read and nothing is forwarded for it.
C13_OtherRoutesAre404 ==
    \A r \in Arrived :
        ~QueryRoute(r)
        => /\ requests[r].pc = "done"
           /\ requests[r].status = NOT_FOUND
           /\ ~requests[r].body_read
           /\ requests[r].result = "none"
           /\ Count(forwarded, r) = 0

\* A GET on "/" and a POST on another path, both answered with 404.
C13_Witness ==
    \E r, q \in Arrived :
        /\ requests[r].method = "GET" /\ requests[r].path = "/"
        /\ requests[q].method = "POST" /\ requests[q].path # "/"
        /\ requests[r].status = NOT_FOUND
        /\ requests[q].status = NOT_FOUND
        /\ forwarded = <<>>

\* ------------------------------------------------------------- C14, C15
\* The kind of the k-th event of a stream that alternates, Start first.
AlternatingKind(k) == IF k % 2 = 1 THEN "SubgraphStart" ELSE "SubgraphStop"

\* C14: for every id, the events of that id alternate in the order they were
\* sent: Start, Stop, Start, ...; never two Start(id) without a Stop(id)
\* between them, never a Stop(id) without an unmatched Start(id) before it.
C14_EventsAlternate ==
    \A id \in Ids :
        \A k \in 1 .. Len(EventsOf(id)) :
            EventsOf(id)[k].kind = AlternatingKind(k)

\* The last event sent for id is a Start.
LastEventIsStart(id) ==
    /\ EventsOf(id) # <<>>
    /\ EventsOf(id)[Len(EventsOf(id))].kind = "SubgraphStart"

\* No call is in flight: every future that was returned has completed.
Quiescent == Begun = Done

\* C15: whenever no start or stop call is in flight, an id is in the
\* running-set if and only if the last event sent for that id is a Start.
C15_SetAgreesWithStreamAtQuiescence ==
    Quiescent =>
        \A id \in Ids : (id \in subgraphs_running) <=> LastEventIsStart(id)

\* ------------------------------------------------------------- C16
\* The start calls of id whose insert found id absent.
WinningStarts(id) ==
    {c \in StartsOf(id) : \/ calls[c].pc \in {"index", "send"}
                          \/ calls[c].result = Ok}

\* The stop calls of id whose remove found id present.
SuccessfulStops(id) ==
    {c \in StopsOf(id) : calls[c].pc = "send" \/ calls[c].result = Ok}

\* Winning starts minus successful stops of id is 1 when id runs, else 0.
Balanced ==
    \A id \in Ids :
        Cardinality(WinningStarts(id)) - Cardinality(SuccessfulStops(id))
            = IF id \in subgraphs_running THEN 1 ELSE 0

\* C16: the running-set changes only in the insert of a winning start (the
\* id was absent and is added) or in the remove of a successful stop (the id
\* was present and is taken out); each such step is one more winning start
\* or one more successful stop of that id, and for each id the number of
\* winning starts minus the number of successful stops is 1 exactly when id
\* is in the running-set and 0 otherwise.
C16_RunningSetBalance ==
    [][/\ Balanced /\ Balanced'
       /\ subgraphs_running' # subgraphs_running
          => \E c \in CallIds : \E id \in Ids :
               \/ /\ calls[c].op = "start" /\ calls[c].pc = "insert"
                  /\ calls[c].id = id /\ id \notin subgraphs_running
                  /\ calls'[c].pc = "index"
                  /\ subgraphs_running' = subgraphs_running \cup {id}
                  /\ WinningStarts(id)' = WinningStarts(id) \cup {c}
                  /\ SuccessfulStops(id)' = SuccessfulStops(id)
               \/ /\ calls[c].pc = "idle" /\ calls'[c].op = "stop"
                  /\ calls'[c].id = id /\ id \in subgraphs_running
                  /\ calls'[c].pc = "send"
                  /\ subgraphs_running' = subgraphs_running \ {id}
                  /\ SuccessfulStops(id)' = SuccessfulStops(id) \cup {c}
                  /\ WinningStarts(id)' = WinningStarts(id)
       /\ \A id \in Ids :
            \/ WinningStarts(id)' # WinningStarts(id)
            \/ SuccessfulStops(id)' # SuccessfulStops(id)
            => subgraphs_running' # subgraphs_running]_vars

\* An id was started, stopped and started again: two winning starts, one
\* successful stop, and the id runs.
C16_Witness ==
    \E id \in Ids :
        /\ Cardinality(WinningStarts(id)) = 2
        /\ Cardinality(SuccessfulStops(id)) = 1
        /\ id \in subgraphs_running

\* ------------------------------------------------------------- C17
\* The start calls of id that have invoked index construction.
IndexedStarts(id) == {c \in StartsOf(id) : calls[c].index # "none"}

\* Where a start call stands tells what it has behind it: index construction
\* only after a successful resolution, the send only after index
\* construction, and one index construction per start that invoked it.
StartStages ==
    /\ \A c \in CallIds :
         calls[c].op = "start"
         => /\ (calls[c].pc \in {"insert", "index", "send"} \/ calls[c].result = Ok)
                 => Resolved(c)
            /\ calls[c].pc \in {"resolve", "insert", "index", "map_err"}
                 => calls[c].index = "none"
            /\ (calls[c].pc = "send" \/ calls[c].result = Ok)
                 => calls[c].index # "none"
            /\ calls[c].index # "none" => c \in WinningStarts(calls[c].id)
    /\ \A id \in Ids : store.indexes[id] = Cardinality(IndexedStarts(id))

\* C17: a winning start(id) goes resolve, insert, index construction, send,
\* in that order and each once: the call itself and the resolution leave the
\* running-set, the store and the event stream alone; the insert is made
\* with the resolved manifest and touches the running-set only; index
\* construction is invoked once, after the insert, and touches the store's
\* indexes only; Start(manifest) is sent only after that.
C17_StartOrdering ==
    [][/\ StartStages /\ StartStages'
       /\ \A c \in CallIds :
            (calls'[c].op = "start" /\ calls'[c] # calls[c])
            => /\ calls[c].pc \in {"idle", "resolve"}
                    => /\ UNCHANGED <<subgraphs_running, store, emitted, channel>>
                       /\ calls'[c].pc = "insert"
                            => calls[c].pc = "resolve" /\ Resolved(c)'
               /\ calls[c].pc = "insert"
                    => /\ Resolved(c)
                       /\ UNCHANGED <<store, emitted, channel>>
                       /\ calls'[c].pc = "index"
                            => /\ calls[c].id \notin subgraphs_running
                               /\ subgraphs_running'
                                    = subgraphs_running \cup {calls[c].id}
               /\ calls[c].pc = "index"
                    => /\ calls'[c].pc = "send"
                       /\ calls[c].index = "none" /\ calls'[c].index # "none"
                       /\ store'.indexes = [store.indexes EXCEPT
                                              ![calls[c].id] = @ + 1]
                       /\ store'.failed = store.failed
                       /\ UNCHANGED <<subgraphs_running, emitted, channel>>
               /\ calls[c].pc = "send"
                    => /\ calls'[c].pc = "done" /\ calls'[c].result = Ok
                       /\ emitted' = Append(emitted, SubgraphStart(calls[c].subgraph))
                       /\ UNCHANGED <<subgraphs_running, store>>
               /\ calls'[c].pc = "index" => calls[c].pc = "insert"
               /\ calls'[c].pc = "send" => calls[c].pc = "index"
               /\ calls'[c].result = Ok => calls[c].pc = "send"]_vars

\* A start won and returned Ok: its manifest is resolved, its id was
\* inserted, index construction ran once and its Start event is out.
C17_Witness ==
    \E c \in Done :
        /\ calls[c].op = "start" /\ calls[c].result = Ok
        /\ Resolved(c)
        /\ calls[c].id \in subgraphs_running
        /\ store.indexes[calls[c].id] = 1
        /\ emitted = <<SubgraphStart(calls[c].subgraph)>>

\* ------------------------------------------------------------- C18
\* C18: the failed flag of an id is written only in the map_err step of a
\* start(id) that ends with an error, and the value written is true; no
\* step of a start that succeeds and no step of a stop writes it, so a flag
\* once true stays true, also across a later successful start of that id.
C18_FailedFlagOnlySetOnStartError ==
    [][/\ \A id \in Ids : store.failed[id] => store'.failed[id]
       /\ (store'.failed # store.failed \/ store'.writes # store.writes)
          => \E c \in CallIds :
               /\ calls[c].op = "start" /\ calls[c].pc = "map_err"
               /\ calls'[c].pc = "done"
               /\ calls'[c].result = calls[c].err
               /\ calls'[c].result # Ok
               /\ store'.failed = [store.failed EXCEPT ![calls[c].id] = TRUE]
               /\ store'.writes = [store.writes EXCEPT ![calls[c].id] = @ + 1]
       /\ \A c \in CallIds :
            ( /\ calls'[c] # calls[c]
              /\ \/ calls'[c].op = "stop"
                 \/ calls'[c].pc \in {"index", "send"}
                 \/ calls'[c].result = Ok )
            => /\ store'.failed = store.failed
               /\ store'.writes = store.writes]_vars

\* A start(id) failed and set the flag; a start(id) made after it returned
\* succeeded, and the flag of id is still true after its one write.
C18_Witness ==
    \E c \in Done : \E w \in calls[c].pre :
        /\ calls[w].op = "start" /\ calls[w].id = calls[c].id
        /\ calls[w].result \notin {Ok, Pending}
        /\ calls[c].op = "start" /\ calls[c].result = Ok
        /\ store.failed[calls[c].id]
        /\ store.writes[calls[c].id] = 1


====
